---- MODULE Spec2Model ----
(***************************************************************************)
(* Model of notebooks/misc/DynamicProgramming.ipynb: the four Python       *)
(* functions all_fib / all_fib_dp (Fibonacci), find_lis (longest           *)
(* increasing subsequence) and knapsack (0-1 knapsack table).              *)
(*                                                                         *)
(* Python lists are TLA+ sequences; a Python index idx is position idx+1.  *)
(* One call is modelled at a time: fn names the function called, pc the    *)
(* position inside it, outcome how the call ended.                         *)
(***************************************************************************)
EXTENDS Integers, Sequences, FiniteSets

VARIABLES
    fn,            \* the function being called
    pc,            \* position in the function's body
    outcome,       \* "running", "returned", or the name of the exception raised
    result,        \* the value returned (NoResult until a return)
    n, i,          \* locals shared by name: n (length / count), i (loop index)
    fibs,          \* all_fib / all_fib_dp: the list being built
    seq,           \* find_lis: the argument
    prev, length,  \* find_lis: the two tables
    max_length, best_seq_end,
    j,             \* find_lis: inner loop index
    lis, element,  \* find_lis: reconstruction
    W, w, v        \* knapsack: the arguments

vars == <<fn, pc, outcome, result, n, i, fibs, seq, prev, length,
          max_length, best_seq_end, j, lis, element, W, w, v>>

(***************************************************************************)
(* Bounds of the model.                                                    *)
(***************************************************************************)
MaxFibN == 25     \* all_fib / all_fib_dp are called with n in -MaxFibNeg..MaxFibN
MaxFibNeg == 3
MaxLen == 4       \* find_lis: sequences of length 0..MaxLen ...
MaxVal == 3       \* ... over the values 0..MaxVal
MaxItems == 3     \* knapsack: lists of 0..MaxItems entries
MaxW == 3         \* knapsack: capacities up to MaxW
MaxWeight == 2    \* knapsack: weights up to MaxWeight
MaxValue == 1     \* knapsack: values up to MaxValue

NoResult == "none"

(***************************************************************************)
(* Python list primitives.                                                 *)
(***************************************************************************)
\* list[idx] is defined for -len <= idx < len; anything else is IndexError
InRange(list, idx) == -Len(list) <= idx /\ idx < Len(list)

\* list[idx], a negative idx counting from the end
At(list, idx) == IF idx >= 0 THEN list[idx + 1] ELSE list[Len(list) + idx + 1]

\* list[idx] = val
SetAt(list, idx, val) ==
    [list EXCEPT ![IF idx >= 0 THEN idx + 1 ELSE Len(list) + idx + 1] = val]

\* [val for _ in range(count)]; range of a negative count is empty
Repeat(val, count) == [p \in 1..count |-> val]

\* list[::-1]
Reversed(list) == [p \in 1..Len(list) |-> list[Len(list) + 1 - p]]

\* all lists of length 0..maxLen over the set vals
ListsUpTo(vals, maxLen) == UNION {[1..len -> vals] : len \in 0..maxLen}

SetMax(S) == CHOOSE m \in S : \A o \in S : o <= m
SetMin(S) == CHOOSE m \in S : \A o \in S : m <= o

(***************************************************************************)
(* Fibonacci: fib, all_fib, all_fib_dp.                                    *)
(***************************************************************************)
RECURSIVE fib(_)
fib(m) ==
    IF m = 0 THEN 0
    ELSE IF m = 1 THEN 1
    ELSE fib(m - 1) + fib(m - 2)

\* the term all_fib_dp appends at index idx
FibDpSameTermTwice(list, idx) ==
    IF idx < 2 THEN idx ELSE At(list, idx - 1) + At(list, idx - 1)

FibDpTerm(list, idx) ==
    IF idx < 2 THEN idx ELSE At(list, idx - 2) + At(list, idx - 1)

FibFns == {"all_fib", "all_fib_dp"}

FibIdle ==
    /\ seq = <<>> /\ prev = <<>> /\ length = <<>>
    /\ max_length = 0 /\ best_seq_end = 0 /\ j = 0
    /\ lis = <<>> /\ element = 0
    /\ W = 0 /\ w = <<>> /\ v = <<>>

InitFib ==
    /\ fn \in FibFns
    /\ n \in (-MaxFibNeg)..MaxFibN
    /\ pc = "call"
    /\ outcome = "running"
    /\ result = NoResult
    /\ i = 0
    /\ fibs = <<>>
    /\ FibIdle

FibUnchanged ==
    UNCHANGED <<fn, n, seq, prev, length, max_length, best_seq_end, j, lis,
                element, W, w, v>>

\* fibs = []; the for loop starts at i = 0
FibEnter ==
    /\ fn \in FibFns /\ pc = "call"
    /\ fibs' = <<>>
    /\ i' = 0
    /\ pc' = "for_i"
    /\ UNCHANGED <<outcome, result>>
    /\ FibUnchanged

\* all_fib: fibs.append(fib(i))
AllFibIter ==
    /\ fn = "all_fib" /\ pc = "for_i" /\ i < n
    /\ fibs' = Append(fibs, fib(i))
    /\ i' = i + 1
    /\ UNCHANGED <<pc, outcome, result>>
    /\ FibUnchanged

\* all_fib_dp: fibs.append(i) or fibs.append(fibs[i - 2] + fibs[i - 1])
AllFibDpIter ==
    /\ fn = "all_fib_dp" /\ pc = "for_i" /\ i < n
    /\ fibs' = Append(fibs, FibDpTerm(fibs, i))
    /\ i' = i + 1
    /\ UNCHANGED <<pc, outcome, result>>
    /\ FibUnchanged

\* return fibs
FibReturn ==
    /\ fn \in FibFns /\ pc = "for_i" /\ i >= n
    /\ result' = fibs
    /\ outcome' = "returned"
    /\ pc' = "done"
    /\ UNCHANGED <<i, fibs>>
    /\ FibUnchanged

NextFib == FibEnter \/ AllFibIter \/ AllFibDpIter \/ FibReturn

SpecFib == InitFib /\ [][NextFib]_vars

(***************************************************************************)
(* Longest increasing subsequence: find_lis.                               *)
(***************************************************************************)
\* the sequence the notebook names as its example
ExampleSeq == <<10, 22, 9, 33, 21, 50, 41, 60, 80>>

\* the arguments find_lis is called with
LisInputs == ListsUpTo(0..MaxVal, MaxLen) \cup {ExampleSeq}

\* the test of the inner scan: candidate jj lengthens the run ending at ii
ImprovesNonStrict(len_tab, s, ii, jj) ==
    (At(len_tab, jj) + 1) > At(len_tab, ii) /\ At(s, jj) <= At(s, ii)

ImprovesOnTie(len_tab, s, ii, jj) ==
    (At(len_tab, jj) + 1) >= At(len_tab, ii) /\ At(s, jj) < At(s, ii)

Improves(len_tab, s, ii, jj) ==
    (At(len_tab, jj) + 1) > At(len_tab, ii) /\ At(s, jj) < At(s, ii)

LisIdle == fibs = <<>> /\ W = 0 /\ w = <<>> /\ v = <<>>

InitLis ==
    /\ fn = "find_lis"
    /\ seq \in LisInputs
    /\ pc = "call"
    /\ outcome = "running"
    /\ result = NoResult
    /\ n = 0 /\ i = 0 /\ j = 0
    /\ prev = <<>> /\ length = <<>>
    /\ max_length = 0 /\ best_seq_end = 0
    /\ lis = <<>> /\ element = 0
    /\ LisIdle

LisUnchanged == UNCHANGED <<fn, seq, fibs, W, w, v>>

\* n, max_length, best_seq_end, then the two tables; prev[0] = -1 is the
\* first subscript and raises IndexError on an empty list
LisEnter ==
    /\ fn = "find_lis" /\ pc = "call"
    /\ n' = Len(seq)
    /\ max_length' = 1
    /\ best_seq_end' = -1
    /\ IF InRange(Repeat(0, Len(seq)), 0)
       THEN /\ prev' = SetAt(Repeat(0, Len(seq)), 0, -1)
            /\ length' = SetAt(Repeat(0, Len(seq)), 0, 1)
            /\ i' = 1
            /\ pc' = "for_i"
            /\ outcome' = outcome
       ELSE /\ prev' = Repeat(0, Len(seq))
            /\ length' = length
            /\ i' = i
            /\ pc' = "raised"
            /\ outcome' = "IndexError"
    /\ UNCHANGED <<result, j, lis, element>>
    /\ LisUnchanged

\* for i in range(1, n): length[i] = 0; prev[i] = -1; the scan starts at i-1
LisOuter ==
    /\ fn = "find_lis" /\ pc = "for_i" /\ i < n
    /\ length' = SetAt(length, i, 0)
    /\ prev' = SetAt(prev, i, -1)
    /\ j' = i - 1
    /\ pc' = "for_j"
    /\ UNCHANGED <<outcome, result, n, i, max_length, best_seq_end, lis, element>>
    /\ LisUnchanged

\* for j in range(i - 1, -1, -1): one candidate
LisInner ==
    /\ fn = "find_lis" /\ pc = "for_j" /\ j > -1
    /\ IF Improves(length, seq, i, j)
       THEN /\ length' = SetAt(length, i, At(length, j) + 1)
            /\ prev' = SetAt(prev, i, j)
       ELSE UNCHANGED <<length, prev>>
    /\ j' = j - 1
    /\ UNCHANGED <<pc, outcome, result, n, i, max_length, best_seq_end, lis,
                   element>>
    /\ LisUnchanged

\* after the scan: if length[i] > max_length, record the new best end
LisInnerDone ==
    /\ fn = "find_lis" /\ pc = "for_j" /\ j <= -1
    /\ IF At(length, i) > max_length
       THEN /\ max_length' = At(length, i)
            /\ best_seq_end' = i
       ELSE UNCHANGED <<max_length, best_seq_end>>
    /\ i' = i + 1
    /\ pc' = "for_i"
    /\ UNCHANGED <<outcome, result, n, j, prev, length, lis, element>>
    /\ LisUnchanged

\* lis = []; element = best_seq_end
LisOuterDone ==
    /\ fn = "find_lis" /\ pc = "for_i" /\ i >= n
    /\ lis' = <<>>
    /\ element' = best_seq_end
    /\ pc' = "recover"
    /\ UNCHANGED <<outcome, result, n, i, j, prev, length, max_length,
                   best_seq_end>>
    /\ LisUnchanged

\* element = prev[element]: the index the walk moves to
NextElementStays(prev_tab, el) == el

NextElement(prev_tab, el) == At(prev_tab, el)

\* while element != -1: lis.append(seq[element]); element = prev[element]
LisRecover ==
    /\ fn = "find_lis" /\ pc = "recover" /\ element # -1
    /\ IF InRange(seq, element) /\ InRange(prev, element)
       THEN /\ lis' = Append(lis, At(seq, element))
            /\ element' = NextElement(prev, element)
            /\ UNCHANGED <<pc, outcome>>
       ELSE /\ pc' = "raised"
            /\ outcome' = "IndexError"
            /\ UNCHANGED <<lis, element>>
    /\ UNCHANGED <<result, n, i, j, prev, length, max_length, best_seq_end>>
    /\ LisUnchanged

\* return lis[::-1]
LisReturn ==
    /\ fn = "find_lis" /\ pc = "recover" /\ element = -1
    /\ result' = Reversed(lis)
    /\ outcome' = "returned"
    /\ pc' = "done"
    /\ UNCHANGED <<n, i, j, prev, length, max_length, best_seq_end, lis,
                   element>>
    /\ LisUnchanged

NextLis ==
    \/ LisEnter \/ LisOuter \/ LisInner \/ LisInnerDone
    \/ LisOuterDone \/ LisRecover \/ LisReturn

SpecLis == InitLis /\ [][NextLis]_vars

\* a call, once started, keeps executing its next statement
SpecLisFair == SpecLis /\ WF_vars(NextLis)

(***************************************************************************)
(* 0-1 knapsack: knapsack(W, w, v).                                        *)
(***************************************************************************)
\* the items and the capacity of the notebook's run
ExampleW == 15
ExampleWeights == <<3, 9, 3, 6, 5>>
ExampleValues == <<40, 45, 72, 77, 16>>

\* S[k][x]
Cell(S, k, x) == At(At(S, k), x)

\* S[k][x] = val
SetCell(S, k, x, val) == SetAt(S, k, SetAt(At(S, k), x, val))

\* One pass of the inner loop body for (x, k): the table after it, and
\* whether a subscript raised IndexError.  S[k][x] = S[k-1][x] comes first;
\* the test reads w[k], then (only if w[k] < x) S[k-1][x-w[k]] and v[k].
KnapCellAlwaysInclude(S, wts, vals, k, x) ==
    LET B == SetCell(S, k, x, Cell(S, k - 1, x))
    IN  IF ~InRange(wts, k) THEN [raised |-> TRUE, S |-> B]
        ELSE IF ~(At(wts, k) < x) THEN [raised |-> FALSE, S |-> B]
        ELSE IF ~InRange(At(B, k - 1), x - At(wts, k))
             THEN [raised |-> TRUE, S |-> B]
        ELSE [raised |-> FALSE,
              S |-> SetCell(B, k, x,
                            Cell(B, k - 1, x - At(wts, k)) + At(vals, k))]

KnapCellInclusive(S, wts, vals, k, x) ==
    LET B == SetCell(S, k, x, Cell(S, k - 1, x))
    IN  IF ~InRange(wts, k) THEN [raised |-> TRUE, S |-> B]
        ELSE IF ~(At(wts, k) <= x) THEN [raised |-> FALSE, S |-> B]
        ELSE IF ~InRange(At(B, k - 1), x - At(wts, k))
             THEN [raised |-> TRUE, S |-> B]
        ELSE IF Cell(B, k - 1, x - At(wts, k)) + At(vals, k) > Cell(B, k, x)
             THEN [raised |-> FALSE,
                   S |-> SetCell(B, k, x,
                                 Cell(B, k - 1, x - At(wts, k)) + At(vals, k))]
        ELSE [raised |-> FALSE, S |-> B]

KnapCell(S, wts, vals, k, x) ==
    LET B == SetCell(S, k, x, Cell(S, k - 1, x))
    IN  IF ~InRange(wts, k) THEN [raised |-> TRUE, S |-> B]
        ELSE IF ~(At(wts, k) < x) THEN [raised |-> FALSE, S |-> B]
        ELSE IF ~InRange(At(B, k - 1), x - At(wts, k))
             THEN [raised |-> TRUE, S |-> B]
        ELSE IF Cell(B, k - 1, x - At(wts, k)) + At(vals, k) > Cell(B, k, x)
             THEN [raised |-> FALSE,
                   S |-> SetCell(B, k, x,
                                 Cell(B, k - 1, x - At(wts, k)) + At(vals, k))]
        ELSE [raised |-> FALSE, S |-> B]

\* for x in range(1, W): for k in range(1, n): ..., from (x, k) onwards;
\* an IndexError ends the call
RECURSIVE KnapFill(_, _, _, _, _, _)
KnapFill(S, cap, wts, vals, x, k) ==
    IF x >= cap THEN [raised |-> FALSE, S |-> S]
    ELSE IF k >= Len(vals) THEN KnapFill(S, cap, wts, vals, x + 1, 1)
    ELSE LET r == KnapCell(S, wts, vals, k, x)
         IN  IF r.raised THEN r
             ELSE KnapFill(r.S, cap, wts, vals, x, k + 1)

\* n = len(v); S = [[0 for x in range(W)] for k in range(n)]; the loops
knapsack(cap, wts, vals) ==
    KnapFill(Repeat(Repeat(0, cap), Len(vals)), cap, wts, vals, 1, 1)

\* the arguments knapsack is called with
KnapInputs ==
    (((-1)..MaxW) \X ListsUpTo((-1)..MaxWeight, MaxItems)
                  \X ListsUpTo((-1)..MaxValue, MaxItems))
    \cup {<<ExampleW, ExampleWeights, ExampleValues>>}

KnapIdle ==
    /\ fibs = <<>> /\ seq = <<>> /\ prev = <<>> /\ length = <<>>
    /\ max_length = 0 /\ best_seq_end = 0 /\ i = 0 /\ j = 0
    /\ lis = <<>> /\ element = 0

InitKnap ==
    /\ fn = "knapsack"
    /\ \E args \in KnapInputs : W = args[1] /\ w = args[2] /\ v = args[3]
    /\ pc = "call"
    /\ outcome = "running"
    /\ result = NoResult
    /\ n = 0
    /\ KnapIdle

KnapUnchanged ==
    UNCHANGED <<fn, W, w, v, i, fibs, seq, prev, length, max_length,
                best_seq_end, j, lis, element>>

\* the call runs to its return S
KnapReturn ==
    /\ fn = "knapsack" /\ pc = "call"
    /\ ~knapsack(W, w, v).raised
    /\ n' = Len(v)
    /\ result' = knapsack(W, w, v).S
    /\ outcome' = "returned"
    /\ pc' = "done"
    /\ KnapUnchanged

\* the call ends in an IndexError: nothing is returned
KnapRaise ==
    /\ fn = "knapsack" /\ pc = "call"
    /\ knapsack(W, w, v).raised
    /\ n' = Len(v)
    /\ outcome' = "IndexError"
    /\ pc' = "raised"
    /\ UNCHANGED result
    /\ KnapUnchanged

NextKnap == KnapReturn \/ KnapRaise

SpecKnap == InitKnap /\ [][NextKnap]_vars

(***************************************************************************)
(* Claims about the Fibonacci functions (checked under SpecFib).           *)
(***************************************************************************)
FibDone == fn \in FibFns /\ pc = "done"

\* C7: for every n >= 0 in the bounds, all_fib(n) and all_fib_dp(n) both
\* return the list of exactly n entries whose entry idx is fib(idx) of the
\* naive recursion (hence the same list), with entry 0 = 0, entry 1 = 1 and
\* entry idx = entry idx-1 + entry idx-2 for idx >= 2.
C7_FibVariantsAgree ==
    (FibDone /\ n >= 0) =>
        /\ outcome = "returned"
        /\ Len(result) = n
        /\ \A idx \in 0..(n - 1) :
              /\ At(result, idx) = fib(idx)
              /\ idx = 0 => At(result, idx) = 0
              /\ idx = 1 => At(result, idx) = 1
              /\ idx >= 2 =>
                    At(result, idx) = At(result, idx - 1) + At(result, idx - 2)

\* C7 witness: the tabulated variant has returned the ten numbers the
\* notebook prints for n = 10
C7_Witness ==
    /\ fn = "all_fib_dp" /\ pc = "done" /\ n = 10
    /\ result = <<0, 1, 1, 2, 3, 5, 8, 13, 21, 34>>

\* C9 (as claimed): a call with a negative n never returns a sequence; it
\* ends in the InvalidArgument failure.
C9_NegativeRejected ==
    (fn \in FibFns /\ n < 0) =>
        /\ outcome # "returned"
        /\ pc = "done" => outcome = "InvalidArgument"

(***************************************************************************)
(* Claims about find_lis (checked under SpecLis).                          *)
(***************************************************************************)
\* index sets of s whose values strictly increase with the index
RefIncreasingSets(s) ==
    {I \in SUBSET (0..(Len(s) - 1)) :
        \A a \in I : \A b \in I : a < b => At(s, a) < At(s, b)}

\* reference: length of a longest strictly increasing subsequence of s
RefLisLength(s) == SetMax({Cardinality(I) : I \in RefIncreasingSets(s)})

\* reference: length of a longest strictly increasing subsequence of s that
\* ends exactly at index idx
RefLisEndingAt(s, idx) ==
    SetMax({Cardinality(I) :
              I \in {K \in RefIncreasingSets(s) :
                        idx \in K /\ \A a \in K : a <= idx}})

StrictlyIncreasing(list) ==
    \A p \in 1..(Len(list) - 1) : list[p] < list[p + 1]

RECURSIVE IsSubsequence(_, _)
IsSubsequence(a, b) ==
    IF a = <<>> THEN TRUE
    ELSE IF b = <<>> THEN FALSE
    ELSE IF Head(a) = Head(b) THEN IsSubsequence(Tail(a), Tail(b))
    ELSE IsSubsequence(a, Tail(b))

LisDone == fn = "find_lis" /\ pc = "done"

\* the tabulation loop has ended
LisTabulated == fn = "find_lis" /\ pc \in {"recover", "done"}

\* the inner scan for index ii has run to its end
LisScanned(ii) ==
    /\ fn = "find_lis"
    /\ \/ pc \in {"recover", "done"}
       \/ pc \in {"for_i", "for_j"} /\ ii < i

\* the candidates for ii among the indices lo..ii-1
LisCandidates(ii, lo) == {jj \in lo..(ii - 1) : At(seq, jj) < At(seq, ii)}

\* the candidates for ii in lo..ii-1 whose table entry is the largest
LisBestCandidates(ii, lo) ==
    {jj \in LisCandidates(ii, lo) :
        \A kk \in LisCandidates(ii, lo) : At(length, kk) <= At(length, jj)}

LargestBest(ii, lo) ==
    IF LisCandidates(ii, lo) = {} THEN -1 ELSE SetMax(LisBestCandidates(ii, lo))

SmallestBest(ii, lo) ==
    IF LisCandidates(ii, lo) = {} THEN -1 ELSE SetMin(LisBestCandidates(ii, lo))

\* C1 (as claimed): on a non-empty sequence the number of elements find_lis
\* returns equals the reference length of a longest strictly increasing
\* subsequence.
C1_LengthMatchesReference ==
    (LisDone /\ seq # <<>>) =>
        /\ outcome = "returned"
        /\ Len(result) = RefLisLength(seq)

\* C3: on a non-empty sequence the list find_lis returns is strictly
\* increasing and is a subsequence of seq.
C3_ResultIncreasingSubsequence ==
    (LisDone /\ seq # <<>>) =>
        /\ outcome = "returned"
        /\ StrictlyIncreasing(result)
        /\ IsSubsequence(result, seq)

\* C3 witness: a returned list of at least three elements that skips some
\* element of seq
C3_Witness ==
    /\ LisDone /\ outcome = "returned"
    /\ Len(result) >= 3 /\ Len(result) < Len(seq)

\* C4 (as claimed): find_lis on the empty sequence does not fail and
\* returns the empty sequence.
C4_EmptyReturnsEmpty ==
    (fn = "find_lis" /\ seq = <<>>) =>
        /\ outcome \in {"running", "returned"}
        /\ outcome = "returned" => result = <<>>

C10_LengthTableExact ==
    (LisTabulated /\ seq # <<>>) =>
        \A idx \in 0..(Len(seq) - 1) :
            /\ At(length, idx) >= 1
            /\ At(length, idx) = RefLisEndingAt(seq, idx)

(***************************************************************************)
(* Claims about knapsack (checked under SpecKnap).                         *)
(***************************************************************************)
RECURSIVE SumOver(_, _)
SumOver(list, I) ==
    IF I = {} THEN 0
    ELSE LET k == CHOOSE m \in I : TRUE
         IN  At(list, k) + SumOver(list, I \ {k})

\* reference: the largest total value of a set of items 1..n-1, each used
\* at most once, whose total weight is at most cap
RefBestValue(cap, wts, vals) ==
    SetMax({SumOver(vals, I) :
              I \in {K \in SUBSET (1..(Len(vals) - 1)) :
                        SumOver(wts, K) <= cap}})

\* well-formed arguments: W >= 1, n >= 1 entries, weights and values >= 0
KnapWellFormed ==
    /\ W >= 1
    /\ Len(v) >= 1
    /\ Len(w) = Len(v)
    /\ \A p \in 1..Len(w) : w[p] >= 0
    /\ \A p \in 1..Len(v) : v[p] >= 0

\* malformed arguments: lists of different lengths, a negative weight or
\* value, or a negative capacity
KnapMalformed ==
    \/ Len(w) # Len(v)
    \/ \E p \in 1..Len(w) : w[p] < 0
    \/ \E p \in 1..Len(v) : v[p] < 0
    \/ W < 0

KnapEnded == fn = "knapsack" /\ pc \in {"done", "raised"}

\* C2 (as claimed): for well-formed arguments the bottom-right cell
\* S[n-1][W-1] of the returned table is the largest total value of a set of
\* items 1..n-1 whose total weight is at most W.
C2_BottomRightIsOptimum ==
    (KnapEnded /\ KnapWellFormed) =>
        /\ outcome = "returned"
        /\ Cell(result, n - 1, W - 1) = RefBestValue(W, w, v)

\* C6: for well-formed arguments the bottom-right cell does not decrease
\* when the capacity grows by one:
\* knapsack(W, w, v)[n-1][W-1] <= knapsack(W+1, w, v)[n-1][W].
C6_MonotoneInCapacity ==
    (KnapEnded /\ KnapWellFormed) =>
        /\ outcome = "returned"
        /\ ~knapsack(W + 1, w, v).raised
        /\ Cell(result, n - 1, W - 1)
              <= Cell(knapsack(W + 1, w, v).S, n - 1, W)

\* C6 witness: a returned table for three entries whose bottom-right cell
\* is positive and strictly grows with one more unit of capacity
C6_Witness ==
    /\ KnapEnded /\ KnapWellFormed /\ outcome = "returned"
    /\ n = 3
    /\ Cell(result, n - 1, W - 1) > 0
    /\ Cell(result, n - 1, W - 1) < Cell(knapsack(W + 1, w, v).S, n - 1, W)

\* C8 (as claimed): a call with malformed arguments ends in the
\* InvalidArgument failure and returns no table.
C8_MalformedRejected ==
    (KnapEnded /\ KnapMalformed) =>
        /\ outcome = "InvalidArgument"
        /\ result = NoResult

\* the table the notebook records for its run
ExampleTableRecorded ==
    (KnapEnded /\ W = ExampleW /\ w = ExampleWeights /\ v = ExampleValues) =>
        result = << <<0, 0, 0, 0, 0, 0, 0, 0, 0, 0, 0, 0, 0, 0, 0>>,
                    <<0, 0, 0, 0, 0, 0, 0, 0, 0, 0, 45, 45, 45, 45, 45>>,
                    <<0, 0, 0, 0, 72, 72, 72, 72, 72, 72, 72, 72, 72, 117, 117>>,
                    <<0, 0, 0, 0, 72, 72, 72, 77, 77, 77, 149, 149, 149, 149, 149>>,
                    <<0, 0, 0, 0, 72, 72, 72, 77, 77, 88, 149, 149, 149, 149, 149>> >>

\* reference: the largest total value of a set of items 1..k, each used at
\* most once, whose total weight is at most cap
RefBestValueOfFirst(cap, wts, vals, k) ==
    SetMax({SumOver(vals, I) :
              I \in {K \in SUBSET (1..k) : SumOver(wts, K) <= cap}})

\* lists of equal length with non-negative weights and values
KnapNonNegative ==
    /\ Len(w) = Len(v)
    /\ \A p \in 1..Len(w) : w[p] >= 0
    /\ \A p \in 1..Len(v) : v[p] >= 0

LisNonEmpty == fn = "find_lis" /\ seq # <<>>

\* every prev entry is -1 or an index below its own
PrevPointsBack ==
    \A idx \in 0..(Len(seq) - 1) :
        At(prev, idx) = -1 \/ (0 <= At(prev, idx) /\ At(prev, idx) < idx)

\* during the walk element is -1 or an index of the tables, and the number
\* of steps taken so far plus the indices still below element is at most n
WalkWithinTables ==
    /\ element = -1 \/ (0 <= element /\ element < Len(seq))
    /\ Len(lis) + element + 1 <= Len(seq)

\* C12: on a non-empty input, after the tabulation every prev[i] is -1 or
\* an index j with 0 <= j < i; the walk element := prev[element] visits
\* strictly decreasing indices, stays inside the tables (no IndexError),
\* takes at most n steps, and the loop ends: the call returns.
C12_ReconstructionTerminates ==
    /\ []((LisNonEmpty /\ LisTabulated) => PrevPointsBack)
    /\ []((LisNonEmpty /\ pc = "recover") => WalkWithinTables)
    /\ []((LisNonEmpty /\ pc = "done") => Len(lis) <= Len(seq))
    /\ [](LisNonEmpty => outcome # "IndexError")
    /\ [][(LisNonEmpty /\ pc = "recover" /\ pc' = "recover")
            => (element' < element /\ Len(lis') = Len(lis) + 1)]_vars
    /\ ((LisNonEmpty /\ pc = "recover")
            ~> (pc = "done" /\ outcome = "returned" /\ element = -1))

\* C12 witness: the walk is under way: two elements collected and a third
\* index still to visit
C12_Witness ==
    /\ LisNonEmpty /\ pc = "recover"
    /\ Len(lis) = 2
    /\ element >= 0 /\ element < At(prev, best_seq_end)

====
